---- MODULE Spec2Model ----
(***************************************************************************)
(* mc-trimmer: region ("chunk") containers and entities containers, the    *)
(* trim operation, the compaction done by __bytes__ / to_bytes, the save   *)
(* rule and the per-file pipeline of the command line driver.              *)
(*                                                                         *)
(* A file is modelled as its two header tables (sequences of 4-byte        *)
(* entries, each entry a tuple of four byte values) followed by its data   *)
(* sectors.  A data sector is a token [k, c]: its kind and the identity of *)
(* the content it carries.  Distinct tokens are distinct byte strings, so  *)
(* equality of modelled files is equality of bytes.                        *)
(***************************************************************************)
EXTENDS Integers, Sequences, FiniteSets, TLC

VARIABLES
    input,        \* bytes of the container file being loaded
    pc,           \* position of the caller: "new", "loaded", "failed", ...
    chunk_data,   \* Region.chunk_data: list of ChunkData, in index order
    dirty,        \* Region.dirty
    output,       \* <<bytes>> returned by the last bytes(region), or <<>>
    lastPred,     \* the predicate of the last trim call (contents it matches)
    calls,        \* slot indices the predicate was evaluated on in that call
    entity_data,  \* EntitiesFile.entity_data: list of ChunkDataBase, sparse
    raised,       \* TRUE once a call on the container has raised
    fs,           \* the file system: path -> <<bytes>> of the file there, or <<>>
    cfg,          \* the Paths of the run: [inplace, backup]
    ops,          \* the file operations process_region has made, in order
    args,         \* the entry point and its parsed command line:
                  \* [entry, inp, outp, backup, parallel]
    dirs,         \* the directories that exist: <<d>> and <<d, subdirectory>>
    disk,         \* the region files: <<d, name>> -> <<bytes>> or <<>>, of the
                  \* file d/region/name (cli.run) or d/name (__main__.run)
    work,         \* the work lists process_batch is called with
    task,         \* per work list, its process_batch call: [pos, phase, cd, dirty]
    orch,         \* position of run(): "start", "rejected", "ready", "running", ...
    touched,      \* the file accesses made so far: [w, op, path]
    started,      \* file name -> number of process_region calls made for it
    scan          \* a call of fast_get_property: [data, name, strategy, result]

regionVars == <<chunk_data, dirty, lastPred, calls>>
entVars == <<entity_data, raised>>
pipeVars == <<fs, cfg, ops>>
batchVars == <<args, dirs, disk, work, task, orch, touched, started>>
scanVars == <<scan>>
vars == <<input, pc, output, regionVars, entVars, pipeVars, batchVars, scanVars>>

---------------------------------------------------------------------------
(* Bounds of the model *)

NumSlots == 2
MaxData == 3
PartialLen == 100
EntNumSlots == 5
EntMaxData == 2
PipeMaxData == 2
MaxFiles == 3
MaxWorkers == 2

(* Program constants *)

CHUNK_SIZE_MULTIPLIER == 4096
CHUNK_HEADER_SIZE == 5
FirstSector == 2
GapFillStart == 2
\* Sizes.CHUNK_LOCATION_DATA_SIZE, Sizes.TIMESTAMPS_DATA_SIZE: one table
CHUNK_LOCATION_DATA_SIZE == 4 * NumSlots
TIMESTAMPS_DATA_SIZE == 4 * NumSlots

---------------------------------------------------------------------------
(* Small helpers *)

Min(a, b) == IF a < b THEN a ELSE b

\* b"\x00\x00\x00\x00" * n: a non-positive count gives the empty string
Zeros(n) == [i \in 1..n |-> <<0, 0, 0, 0>>]

---------------------------------------------------------------------------
(* Fixed-size record codec *)

\* ChunkLocation.from_bytes: struct.unpack(">IB", b"\x00" + data)
LocFromBytes(b) == [offset |-> b[1] * 65536 + b[2] * 256 + b[3], size |-> b[4]]

\* ChunkLocation.__bytes__: struct.pack(">IB", offset, size)[1:]
LocToBytes(l) ==
    <<(l.offset \div 65536) % 256, (l.offset \div 256) % 256, l.offset % 256, l.size>>

\* Timestamp.from_bytes: struct.unpack(">I", data)
TsFromBytes(b) == b[1] * 16777216 + b[2] * 65536 + b[3] * 256 + b[4]

\* Timestamp.__bytes__: struct.pack(">I", timestamp)
TsToBytes(t) ==
    <<(t \div 16777216) % 256, (t \div 65536) % 256, (t \div 256) % 256, t % 256>>

ZeroEntry == <<0, 0, 0, 0>>

---------------------------------------------------------------------------
(* Data sectors *)

Zero == [k |-> "zero", c |-> 0]

\* Number of bytes of a sector token: only a file's last sector can be short.
TokLen(t) == IF t.k = "part" THEN PartialLen ELSE CHUNK_SIZE_MULTIPLIER

RECURSIVE ByteLen(_)
ByteLen(s) == IF s = <<>> THEN 0 ELSE TokLen(Head(s)) + ByteLen(Tail(s))

\* The compression scheme byte (5th byte) of a sector read as a chunk header.
Compression(t) ==
    CASE t.k \in {"chunk", "head", "part"} -> 2
      [] t.k = "zero" -> 0
      [] OTHER -> 255

\* The length field (first four bytes) of a sector read as a chunk header.
Length(t) == IF t.k = "zero" THEN 0 ELSE 1

\* zlib.decompress(data) succeeds iff data starts with a complete stream;
\* bytes after the end of the stream are ignored.
Decompresses(s) ==
    \/ s[1].k \in {"chunk", "part"}
    \/ /\ s[1].k = "head"
       /\ Len(s) >= 2
       /\ s[2] = [k |-> "tail", c |-> s[1].c]

\* Chunk.from_bytes followed by Chunk.__init__: does it return a Chunk?
ChunkFromBytesOk(s) ==
    /\ ByteLen(s) >= CHUNK_HEADER_SIZE
    /\ Compression(s[1]) = 2
    /\ (Length(s[1]) > 0 => Decompresses(s))

\* The content a chunk's fast field scan reads: identified by its first sector.
Content(s) == s[1].c

---------------------------------------------------------------------------
(* Files *)

\* data[start : start + size * 4096] of the whole file, in sectors; sectors
\* 0 and 1 are the two tables, Python slicing stops at the end of the file.
Slice(f, loc) ==
    SubSeq(f.data, loc.offset - 1, Min(loc.offset + loc.size - 2, Len(f.data)))

FileLen(f) == 4 * Len(f.loc) + 4 * Len(f.ts) + ByteLen(f.data)

---------------------------------------------------------------------------
(* Region.__bytes__ *)

\* sorted(chunk_data, key=offset): the position list of a stable sort.
Before(cd, i, j) ==
    \/ cd[i].location.offset < cd[j].location.offset
    \/ cd[i].location.offset = cd[j].location.offset /\ i < j

SortedByOffset(cd) ==
    [r \in 1..Len(cd) |->
        CHOOSE i \in 1..Len(cd) :
            Cardinality({j \in 1..Len(cd) : Before(cd, j, i)}) = r - 1]

\* sorted(chunk_data, key=index): the position list of a stable sort.
BeforeIndex(cd, i, j) ==
    \/ cd[i].index < cd[j].index
    \/ cd[i].index = cd[j].index /\ i < j

SortedByIndex(cd) ==
    [r \in 1..Len(cd) |->
        CHOOSE i \in 1..Len(cd) :
            Cardinality({j \in 1..Len(cd) : BeforeIndex(cd, j, i)}) = r - 1]

\* ReflowOne with the cursor advanced by one sector whatever the size
ReflowOneUnitAdvance(st, i) ==
    LET cd == st.cd
        length == ByteLen(cd[i].chunk)
        size == length \div 4096
    IN  IF ~st.ok \/ length % 4096 # 0
        THEN [st EXCEPT !.ok = FALSE]
        ELSE IF size = 0
        THEN [st EXCEPT !.cd[i].location = [offset |-> 0, size |-> 0],
                        !.cd[i].timestamp = 0]
        ELSE [st EXCEPT !.cd[i].location = [offset |-> st.offset, size |-> size],
                        !.chunks = st.chunks \o cd[i].chunk,
                        !.offset = st.offset + 1]

\* ReflowOne with the size of a non-empty slot left as the table gave it
ReflowOneKeepSize(st, i) ==
    LET cd == st.cd
        length == ByteLen(cd[i].chunk)
        size == length \div 4096
    IN  IF ~st.ok \/ length % 4096 # 0
        THEN [st EXCEPT !.ok = FALSE]
        ELSE IF size = 0
        THEN [st EXCEPT !.cd[i].location = [offset |-> 0, size |-> 0],
                        !.cd[i].timestamp = 0]
        ELSE [st EXCEPT !.cd[i].location = [offset |-> st.offset, size |-> cd[i].location.size],
                        !.chunks = st.chunks \o cd[i].chunk,
                        !.offset = st.offset + size]

\* One iteration of the first loop: adjust offset and size, store the data.
ReflowOne(st, i) ==
    LET cd == st.cd
        length == ByteLen(cd[i].chunk)
        size == length \div 4096
    IN  IF ~st.ok \/ length % 4096 # 0
        THEN [st EXCEPT !.ok = FALSE]
        ELSE IF size = 0
        THEN [st EXCEPT !.cd[i].location = [offset |-> 0, size |-> 0],
                        !.cd[i].timestamp = 0]
        ELSE [st EXCEPT !.cd[i].location = [offset |-> st.offset, size |-> size],
                        !.chunks = st.chunks \o cd[i].chunk,
                        !.offset = st.offset + size]

RECURSIVE ReflowLoop(_, _)
ReflowLoop(st, order) ==
    IF order = <<>> THEN st
    ELSE ReflowLoop(ReflowOne(st, Head(order)), Tail(order))

Reflow(cd) ==
    ReflowLoop([ok |-> TRUE, cd |-> cd, offset |-> FirstSector, chunks |-> <<>>],
               SortedByOffset(cd))

\* Region.__bytes__: [ok, cd (the mutated list), bytes]; the tables are
\* written from the records in the order of their index
RegionBytes(cd) ==
    LET st == Reflow(cd)
        order == SortedByIndex(st.cd)
    IN  [ok |-> st.ok,
         cd |-> st.cd,
         bytes |-> [loc |-> [r \in 1..Len(cd) |-> LocToBytes(st.cd[order[r]].location)],
                    ts |-> [r \in 1..Len(cd) |-> TsToBytes(st.cd[order[r]].timestamp)],
                    data |-> st.chunks]]

---------------------------------------------------------------------------
(* Region.__init__ *)

SlotOk(f, i) ==
    LET loc == LocFromBytes(f.loc[i])
    IN  loc.size > 0 => loc.offset >= 2 /\ ChunkFromBytesOk(Slice(f, loc))

LoadSlot(f, i) ==
    LET loc == LocFromBytes(f.loc[i])
    IN  [chunk |-> IF loc.size > 0 THEN Slice(f, loc) ELSE <<>>,
         location |-> loc,
         timestamp |-> TsFromBytes(f.ts[i]),
         index |-> i - 1]

\* Region.__init__: [ok, cd]; the constructor ends with bytes(self)
RegionInit(f) ==
    IF \A i \in 1..NumSlots : SlotOk(f, i)
    THEN LET b == RegionBytes([i \in 1..NumSlots |-> LoadSlot(f, i)])
         IN  [ok |-> b.ok, cd |-> b.cd]
    ELSE [ok |-> FALSE, cd |-> <<>>]

---------------------------------------------------------------------------
(* Chunk.conditional_reset and Region.trim *)

\* condition(chunk): pred is the set of contents the predicate is true of
Condition(pred, chunk) == Content(chunk) \in pred

\* conditional_reset with the test of the condition inverted
ConditionalResetInverted(pred, chunk) ==
    IF chunk # <<>>
    THEN IF ~Condition(pred, chunk)
         THEN [chunk |-> <<>>, ret |-> TRUE, evaluated |-> TRUE]
         ELSE [chunk |-> chunk, ret |-> FALSE, evaluated |-> TRUE]
    ELSE [chunk |-> chunk, ret |-> FALSE, evaluated |-> FALSE]

\* conditional_reset that re-encodes the retained decompressed data of a
\* chunk that was reset
ConditionalResetRestoring(pred, chunk) ==
    IF chunk # <<>>
    THEN IF Condition(pred, chunk)
         THEN [chunk |-> <<>>, ret |-> TRUE, evaluated |-> TRUE]
         ELSE [chunk |-> chunk, ret |-> FALSE, evaluated |-> TRUE]
    ELSE [chunk |-> <<[k |-> "chunk", c |-> 1]>>, ret |-> FALSE, evaluated |-> FALSE]

\* Chunk.conditional_reset: the chunk afterwards, the value returned, and
\* whether the condition was evaluated
ConditionalReset(pred, chunk) ==
    IF chunk # <<>>
    THEN IF Condition(pred, chunk)
         THEN [chunk |-> <<>>, ret |-> TRUE, evaluated |-> TRUE]
         ELSE [chunk |-> chunk, ret |-> FALSE, evaluated |-> TRUE]
    ELSE [chunk |-> chunk, ret |-> FALSE, evaluated |-> FALSE]

\* Region.trim that sets dirty whatever conditional_reset returns
RegionTrimAlwaysDirty(pred, cd, d) ==
    LET r == [i \in 1..Len(cd) |-> ConditionalReset(pred, cd[i].chunk)]
    IN  [cd |-> [i \in 1..Len(cd) |-> [cd[i] EXCEPT !.chunk = r[i].chunk]],
         dirty |-> TRUE,
         calls |-> {cd[i].index : i \in {j \in 1..Len(cd) : r[j].evaluated}}]

\* Region.trim with "=" for "|=": dirty is what this call alone cleared
RegionTrimAssignDirty(pred, cd, d) ==
    LET r == [i \in 1..Len(cd) |-> ConditionalReset(pred, cd[i].chunk)]
    IN  [cd |-> [i \in 1..Len(cd) |-> [cd[i] EXCEPT !.chunk = r[i].chunk]],
         dirty |-> (\E i \in 1..Len(cd) : r[i].ret),
         calls |-> {cd[i].index : i \in {j \in 1..Len(cd) : r[j].evaluated}}]

\* Region.trim: self.dirty |= cd.chunk.conditional_reset(condition), for each cd
RegionTrim(pred, cd, d) ==
    LET r == [i \in 1..Len(cd) |-> ConditionalReset(pred, cd[i].chunk)]
    IN  [cd |-> [i \in 1..Len(cd) |-> [cd[i] EXCEPT !.chunk = r[i].chunk]],
         dirty |-> (d \/ \E i \in 1..Len(cd) : r[i].ret),
         calls |-> {cd[i].index : i \in {j \in 1..Len(cd) : r[j].evaluated}}]

\* Region.trim with a condition that raises on the contents in bad (the
\* property it reads is not found): the loop stops at the first non-empty
\* slot whose content is in bad; the slots before it have been processed.
RegionTrimRaising(pred, bad, cd, d) ==
    LET stops == {i \in 1..Len(cd) : cd[i].chunk # <<>> /\ Content(cd[i].chunk) \in bad}
        before(i) == \A j \in stops : i < j
        r == [i \in 1..Len(cd) |-> ConditionalReset(pred, cd[i].chunk)]
    IN  [cd |-> [i \in 1..Len(cd) |->
                    IF before(i) THEN [cd[i] EXCEPT !.chunk = r[i].chunk] ELSE cd[i]],
         dirty |-> (d \/ \E i \in 1..Len(cd) : before(i) /\ r[i].ret),
         calls |-> {cd[i].index : i \in {j \in 1..Len(cd) :
                        r[j].evaluated /\ \A k \in stops : j <= k}},
         raised |-> stops # {}]

---------------------------------------------------------------------------
(* EntitiesFile.__init__ and RegionLike.to_bytes *)

\* EntitiesFile.__init__: only the slots with size > 0 are kept
RECURSIVE EntityList(_, _)
EntityList(f, i) ==
    IF i > EntNumSlots THEN <<>>
    ELSE LET loc == LocFromBytes(f.loc[i])
         IN  (IF loc.size > 0 THEN <<LoadSlot(f, i)>> ELSE <<>>) \o EntityList(f, i + 1)

EntitiesInit(f) ==
    IF \A i \in 1..EntNumSlots : SlotOk(f, i)
    THEN [ok |-> TRUE, cd |-> EntityList(f, 1)]
    ELSE [ok |-> FALSE, cd |-> <<>>]

\* The second loop of to_bytes, with its gap fill: the records still to
\* visit are taken in the order of their index, whatever the list order
RECURSIVE TablesLoop(_, _, _, _)
TablesLoop(cd, previous, locations, timestamps) ==
    IF cd = <<>>
    THEN [locations |-> locations \o Zeros(EntNumSlots - previous - 1),
          timestamps |-> timestamps \o Zeros(EntNumSlots - previous - 1)]
    ELSE LET first == SortedByIndex(cd)[1]
             e == cd[first]
             rest == [k \in 1..(Len(cd) - 1) |-> IF k < first THEN cd[k] ELSE cd[k + 1]]
             fill == IF e.index - previous > 1 THEN Zeros(e.index - previous - 1) ELSE <<>>
         IN  TablesLoop(rest, e.index,
                        locations \o fill \o <<LocToBytes(e.location)>>,
                        timestamps \o fill \o <<TsToBytes(e.timestamp)>>)

\* RegionLike.to_bytes: [ok, cd (the mutated list), bytes]
ToBytes(cd) ==
    LET st == Reflow(cd)
        t == TablesLoop(st.cd, GapFillStart, <<>>, <<>>)
    IN  [ok |-> st.ok,
         cd |-> st.cd,
         bytes |-> [loc |-> t.locations, ts |-> t.timestamps, data |-> st.chunks]]

---------------------------------------------------------------------------
(* Input files *)

Kinds == {"chunk", "head", "tail", "zero", "part"}

Token(kinds, i) ==
    CASE kinds[i] = "zero" -> Zero
      [] kinds[i] = "tail" -> [k |-> "tail", c |-> i - 1]
      [] OTHER -> [k |-> kinds[i], c |-> i]

WellFormedKinds(kinds) ==
    \A i \in 1..Len(kinds) :
        /\ kinds[i] = "tail" => i > 1 /\ kinds[i - 1] = "head"
        /\ kinds[i] = "part" => i = Len(kinds)

DataSeqsOver(kindSet, maxLen) ==
    UNION {{[i \in 1..n |-> Token(kinds, i)] :
                kinds \in {ks \in [1..n -> kindSet] : WellFormedKinds(ks)}} :
           n \in 0..maxLen}

DataSeqs == DataSeqsOver(Kinds, MaxData)

LocEntries ==
    {LocToBytes([offset |-> o, size |-> s]) :
        o \in 1..(MaxData + 1), s \in 1..2}
    \cup {LocToBytes([offset |-> 0, size |-> 0]), LocToBytes([offset |-> 3, size |-> 0])}

\* Timestamp tables: every slot stamped, or only the slots in use stamped.
TsTables(loc) ==
    {[i \in DOMAIN loc |-> TsToBytes(300 + i)],
     [i \in DOMAIN loc |-> IF loc[i][4] > 0 THEN TsToBytes(300 + i) ELSE ZeroEntry]}

EntDataSeqs == DataSeqsOver({"chunk", "zero"}, EntMaxData)

EntLocEntries ==
    {LocToBytes([offset |-> o, size |-> 1]) : o \in 2..(EntMaxData + 1)}
    \cup {LocToBytes([offset |-> 0, size |-> 0]), LocToBytes([offset |-> 3, size |-> 0])}

Paths == {"in", "out", "bak"}

NoFiles == [p \in Paths |-> <<>>]

\* A file left at the output path by an earlier run
OldFile == [loc |-> <<>>, ts |-> <<>>, data |-> <<Zero>>]

PipeDataSeqs == DataSeqsOver(Kinds, PipeMaxData)

PipeLocEntries ==
    {LocToBytes([offset |-> o, size |-> s]) :
        o \in 1..(PipeMaxData + 1), s \in 1..2}
    \cup {LocToBytes([offset |-> 0, size |-> 0]), LocToBytes([offset |-> 3, size |-> 0])}

\* The contents the container holds: what a predicate can tell apart.
Contents(cd) == {Content(cd[i].chunk) : i \in {j \in 1..Len(cd) : cd[j].chunk # <<>>}}

\* No call of the field scan on its own is under way
NoScan == scan = [data |-> <<>>, name |-> <<>>, strategy |-> <<>>, result |-> <<>>]

\* No batch: the container is used directly, run() is not involved
NoBatch ==
    /\ args = [entry |-> "cli", inp |-> "a", outp |-> "a", backup |-> <<>>, parallel |-> <<>>]
    /\ dirs = {}
    /\ disk = [p \in {} |-> <<>>]
    /\ work = <<>>
    /\ task = <<>>
    /\ orch = "idle"
    /\ touched = {}
    /\ started = [f \in {} |-> 0]

---------------------------------------------------------------------------
(* The region container used through its API: load, trim, serialize *)

Init ==
    /\ \E loc \in [1..NumSlots -> LocEntries], d \in DataSeqs :
         \E ts \in TsTables(loc) :
            input = [loc |-> loc, ts |-> ts, data |-> d]
    /\ pc = "new"
    /\ chunk_data = <<>>
    /\ dirty = FALSE
    /\ output = <<>>
    /\ lastPred = {}
    /\ calls = {}
    /\ entity_data = <<>>
    /\ raised = FALSE
    /\ fs = NoFiles
    /\ cfg = [inplace |-> FALSE, backup |-> FALSE]
    /\ ops = <<>>
    /\ NoBatch
    /\ NoScan

\* Region.from_file
Load ==
    /\ pc = "new"
    /\ LET r == RegionInit(input)
       IN  IF r.ok
           THEN /\ pc' = "loaded"
                /\ chunk_data' = r.cd
           ELSE /\ pc' = "failed"
                /\ chunk_data' = <<>>
    /\ dirty' = FALSE
    /\ UNCHANGED <<input, output, lastPred, calls, entVars, pipeVars, batchVars, scanVars>>

\* Region.trim(condition)
Trim(pred) ==
    /\ pc = "loaded"
    /\ LET t == RegionTrim(pred, chunk_data, dirty)
       IN  /\ chunk_data' = t.cd
           /\ dirty' = t.dirty
           /\ calls' = t.calls
    /\ lastPred' = pred
    /\ output' = <<>>
    /\ UNCHANGED <<input, pc, entVars, pipeVars, batchVars, scanVars>>

\* bytes(region)
Serialize ==
    /\ pc = "loaded"
    /\ LET b == RegionBytes(chunk_data)
       IN  /\ b.ok
           /\ chunk_data' = b.cd
           /\ output' = <<b.bytes>>
    /\ UNCHANGED <<input, pc, dirty, lastPred, calls, entVars, pipeVars, batchVars, scanVars>>

Next ==
    \/ Load
    \/ \E pred \in SUBSET Contents(chunk_data) : Trim(pred)
    \/ Serialize

Spec == Init /\ [][Next]_vars

---------------------------------------------------------------------------
(* The entities container: load, serialize, reset_chunk *)

InitEntities ==
    /\ \E loc \in [1..EntNumSlots -> EntLocEntries], d \in EntDataSeqs :
         \E ts \in TsTables(loc) :
            input = [loc |-> loc, ts |-> ts, data |-> d]
    /\ pc = "new"
    /\ chunk_data = <<>>
    /\ dirty = FALSE
    /\ output = <<>>
    /\ lastPred = {}
    /\ calls = {}
    /\ entity_data = <<>>
    /\ raised = FALSE
    /\ fs = NoFiles
    /\ cfg = [inplace |-> FALSE, backup |-> FALSE]
    /\ ops = <<>>
    /\ NoBatch
    /\ NoScan

\* EntitiesFile.from_file
LoadEntities ==
    /\ pc = "new"
    /\ LET r == EntitiesInit(input)
       IN  /\ pc' = IF r.ok THEN "loaded" ELSE "failed"
           /\ entity_data' = r.cd
    /\ UNCHANGED <<input, output, regionVars, raised, pipeVars, batchVars, scanVars>>

\* bytes(entities_file)
SerializeEntities ==
    /\ pc = "loaded"
    /\ LET b == ToBytes(entity_data)
       IN  /\ b.ok
           /\ entity_data' = b.cd
           /\ output' = <<b.bytes>>
    /\ UNCHANGED <<input, pc, regionVars, raised, pipeVars, batchVars, scanVars>>

\* EntitiesFile.reset_chunk(index): SerializableLocation() and Timestamp()
\* are called without their required arguments, which raises TypeError
\* before list.remove is reached.
ResetChunk(index) ==
    /\ pc = "loaded"
    /\ raised' = TRUE
    /\ UNCHANGED <<input, pc, output, regionVars, entity_data, pipeVars, batchVars, scanVars>>

\* entity_data[i].data.conditional_reset(condition): Entity.conditional_reset
\* clears the payload of a record that holds one and that the condition is
\* true of; the record stays in the list.
EntityConditionalReset(i, pred) ==
    /\ pc = "loaded"
    /\ i \in 1..Len(entity_data)
    /\ entity_data' = [entity_data EXCEPT ![i].chunk = ConditionalReset(pred, @).chunk]
    /\ UNCHANGED <<input, pc, output, regionVars, raised, pipeVars, batchVars, scanVars>>

NextEntities ==
    \/ LoadEntities
    \/ SerializeEntities
    \/ \E i \in 1..EntNumSlots : \E pred \in SUBSET Contents(entity_data) :
          EntityConditionalReset(i, pred)
    \/ \E index \in 0..(EntNumSlots - 1) : ResetChunk(index)

SpecEntities == InitEntities /\ [][NextEntities]_vars

---------------------------------------------------------------------------
(* Region.save_to_file *)

\* save_to_file(region): the file system afterwards and the bytes serialized
SaveToFile(cd, files, path) ==
    LET b == RegionBytes(cd)
    IN  [ok |-> b.ok,
         cd |-> b.cd,
         bytes |-> b.bytes,
         written |-> FileLen(b.bytes) > CHUNK_LOCATION_DATA_SIZE + TIMESTAMPS_DATA_SIZE,
         fs |-> IF FileLen(b.bytes) > CHUNK_LOCATION_DATA_SIZE + TIMESTAMPS_DATA_SIZE
                THEN [files EXCEPT ![path] = <<b.bytes>>]
                ELSE files]

---------------------------------------------------------------------------
(* process_region: load, trim, then backup and save, or pass through *)

\* region_path, and paths.outp_region / region_path.name
InPath == "in"
OutPath == IF cfg.inplace THEN "in" ELSE "out"
BackupPath == "bak"

InitPipeline ==
    /\ \E loc \in [1..NumSlots -> PipeLocEntries], d \in PipeDataSeqs :
         input = [loc |-> loc, ts |-> [i \in 1..NumSlots |-> TsToBytes(300 + i)], data |-> d]
    /\ cfg \in [inplace : BOOLEAN, backup : BOOLEAN]
    /\ \E old \in {<<>>, <<OldFile>>} :
         fs = [p \in Paths |-> IF p = "in" THEN <<input>>
                               ELSE IF p = "out" /\ ~cfg.inplace THEN old ELSE <<>>]
    /\ pc = "new"
    /\ chunk_data = <<>>
    /\ dirty = FALSE
    /\ output = <<>>
    /\ lastPred = {}
    /\ calls = {}
    /\ entity_data = <<>>
    /\ raised = FALSE
    /\ ops = <<>>
    /\ NoBatch
    /\ NoScan

\* region = RegionFile.from_file(region_path)
PLoad ==
    /\ pc = "new"
    /\ LET r == RegionInit(fs[InPath][1])
       IN  IF r.ok
           THEN /\ pc' = "loaded"
                /\ chunk_data' = r.cd
           ELSE /\ pc' = "failed"
                /\ chunk_data' = <<>>
    /\ dirty' = FALSE
    /\ UNCHANGED <<input, output, lastPred, calls, entVars, pipeVars, batchVars, scanVars>>

\* region.trim(criteria)
PTrim(pred) ==
    /\ pc = "loaded"
    /\ LET t == RegionTrim(pred, chunk_data, dirty)
       IN  /\ chunk_data' = t.cd
           /\ dirty' = t.dirty
           /\ calls' = t.calls
    /\ lastPred' = pred
    /\ pc' = "trimmed"
    /\ UNCHANGED <<input, output, entVars, pipeVars, batchVars, scanVars>>

\* process_region that catches the exception of the criteria and goes on
PTrimRaisesSwallowed(pred, bad) ==
    /\ pc = "loaded"
    /\ LET t == RegionTrimRaising(pred, bad, chunk_data, dirty)
       IN  /\ t.raised
           /\ chunk_data' = t.cd
           /\ dirty' = t.dirty
           /\ calls' = t.calls
    /\ lastPred' = pred
    /\ raised' = TRUE
    /\ pc' = "trimmed"
    /\ UNCHANGED <<input, output, entity_data, pipeVars, batchVars, scanVars>>

\* region.trim(criteria) when the criteria raise on some chunk: the exception
\* leaves trim and process_region, the container partly trimmed in memory
PTrimRaises(pred, bad) ==
    /\ pc = "loaded"
    /\ LET t == RegionTrimRaising(pred, bad, chunk_data, dirty)
       IN  /\ t.raised
           /\ chunk_data' = t.cd
           /\ dirty' = t.dirty
           /\ calls' = t.calls
    /\ lastPred' = pred
    /\ raised' = TRUE
    /\ pc' = "failed"
    /\ UNCHANGED <<input, output, entity_data, pipeVars, batchVars, scanVars>>

\* if region.dirty: if paths.backup_region is not None: shutil.copy2(...)
PBackup ==
    /\ pc = "trimmed"
    /\ dirty
    /\ cfg.backup
    /\ fs' = [fs EXCEPT ![BackupPath] = fs[InPath]]
    /\ ops' = Append(ops, "backup")
    /\ pc' = "backed"
    /\ UNCHANGED <<input, output, regionVars, entVars, cfg, batchVars, scanVars>>

\* save_to_file called before the backup copy has been made
PSaveSkipsBackup ==
    /\ pc \in {"trimmed", "backed"}
    /\ dirty
    /\ LET r == SaveToFile(chunk_data, fs, OutPath)
       IN  /\ r.ok
           /\ chunk_data' = r.cd
           /\ output' = <<r.bytes>>
           /\ fs' = r.fs
           /\ ops' = Append(ops, IF r.written THEN "save:write" ELSE "save:nothing")
    /\ pc' = "done"
    /\ UNCHANGED <<input, dirty, lastPred, calls, entVars, cfg, batchVars, scanVars>>

\* region.save_to_file(paths.outp_region / region_path.name)
PSave ==
    /\ \/ pc = "trimmed" /\ dirty /\ ~cfg.backup
       \/ pc = "backed"
    /\ LET r == SaveToFile(chunk_data, fs, OutPath)
       IN  /\ r.ok
           /\ chunk_data' = r.cd
           /\ output' = <<r.bytes>>
           /\ fs' = r.fs
           /\ ops' = Append(ops, IF r.written THEN "save:write" ELSE "save:nothing")
    /\ pc' = "done"
    /\ UNCHANGED <<input, dirty, lastPred, calls, entVars, cfg, batchVars, scanVars>>

\* The pass-through copy made whether or not the container is dirty
PCopyAlways ==
    /\ pc = "trimmed"
    /\ InPath # OutPath
    /\ fs' = [fs EXCEPT ![OutPath] = fs[InPath]]
    /\ ops' = Append(ops, "copy")
    /\ pc' = "done"
    /\ UNCHANGED <<input, output, regionVars, entVars, cfg, batchVars, scanVars>>

\* else: if region_path != out: shutil.copy2(region_path, out)
PCopy ==
    /\ pc = "trimmed"
    /\ ~dirty
    /\ InPath # OutPath
    /\ fs' = [fs EXCEPT ![OutPath] = fs[InPath]]
    /\ ops' = Append(ops, "copy")
    /\ pc' = "done"
    /\ UNCHANGED <<input, output, regionVars, entVars, cfg, batchVars, scanVars>>

\* else: the paths coincide, nothing is done
PUnchanged ==
    /\ pc = "trimmed"
    /\ ~dirty
    /\ InPath = OutPath
    /\ pc' = "done"
    /\ UNCHANGED <<input, output, regionVars, entVars, pipeVars, batchVars, scanVars>>

NextPipeline ==
    \/ PLoad
    \/ \E pred \in SUBSET Contents(chunk_data) : PTrim(pred)
    \/ \E pred \in SUBSET Contents(chunk_data) :
          \E bad \in SUBSET (Contents(chunk_data) \ pred) : PTrimRaises(pred, bad)
    \/ PBackup
    \/ PSave
    \/ PCopy
    \/ PUnchanged

SpecPipeline == InitPipeline /\ [][NextPipeline]_vars

---------------------------------------------------------------------------
(* cli.run(): Paths, the partition of the region files, process_batch;
   __main__.run(): the loop over the region files of the input directory *)

Dirs == {"a", "b", "c"}

Names == 1..MaxFiles

fileVars == <<input, pc, output, regionVars, entVars, pipeVars>>

\* Region files of a batch: one with a chunk the criteria match and one they
\* keep, one whose only chunk is kept, one whose slot points at a sector of
\* zeros (from_file fails on it), and one whose only chunk is matched
Table(first, second) ==
    [i \in 1..NumSlots |-> IF i = 1 THEN first ELSE IF i = 2 THEN second ELSE ZeroEntry]

StampedTable(loc) ==
    [i \in 1..NumSlots |-> IF loc[i][4] > 0 THEN TsToBytes(300 + i) ELSE ZeroEntry]

BatchFile(first, second, data) ==
    LET loc == Table(first, second)
    IN  [loc |-> loc, ts |-> StampedTable(loc), data |-> data]

TrimmedFile ==
    BatchFile(LocToBytes([offset |-> 2, size |-> 1]), LocToBytes([offset |-> 3, size |-> 1]),
              <<[k |-> "chunk", c |-> 1], [k |-> "chunk", c |-> 2]>>)

KeptFile ==
    BatchFile(LocToBytes([offset |-> 3, size |-> 1]), ZeroEntry,
              <<Zero, [k |-> "chunk", c |-> 2]>>)

CorruptFile ==
    BatchFile(LocToBytes([offset |-> 2, size |-> 1]), ZeroEntry, <<Zero>>)

\* A file whose only chunk the criteria match: trimming leaves it empty
EmptiedFile ==
    BatchFile(LocToBytes([offset |-> 2, size |-> 1]), ZeroEntry, <<[k |-> "chunk", c |-> 1]>>)

BatchFiles == {TrimmedFile, KeptFile, CorruptFile, EmptiedFile}

\* The criteria of the run: the contents CRITERIA_MAPPING[criteria] is true of
BatchCriteria == {1}

\* The directories Paths lays out under each location
Subdirs == {"region", "poi", "entities"}

\* The directory the region files disk[<<d, name>>] of location d are in
RegionDir(a, d) == IF a.entry = "cli" THEN <<d, "region">> ELSE <<d>>

\* The three checks without the comparison of backup and output
PathsOkNoOutputCheck(a, ds) ==
    /\ a.backup # <<a.inp>>
    /\ <<a.inp>> \in ds

\* Paths.__init__: the three checks made before any directory is touched
PathsOk(a, ds) ==
    /\ a.backup # <<a.inp>>
    /\ a.backup # <<a.outp>>
    /\ <<a.inp>> \in ds

\* d/region, d/poi, d/entities .mkdir(exist_ok=True) in an existing d
Mkdirs(d, ds) == ds \cup {<<d, sub>> : sub \in Subdirs}

\* Paths.__init__: whether it returns, and the directories afterwards. The
\* sub-directories are made with mkdir(exist_ok=True) and without
\* parents=True, for the backup location first, then the input, then the
\* output: the first mkdir under a location that does not exist raises
\* FileNotFoundError, the directories made before it stay.
PathsInit(a, ds) ==
    IF ~PathsOk(a, ds) THEN [ok |-> FALSE, dirs |-> ds]
    ELSE IF a.backup # <<>> /\ a.backup \notin ds THEN [ok |-> FALSE, dirs |-> ds]
    ELSE LET made == Mkdirs(a.inp, IF a.backup # <<>> THEN Mkdirs(a.backup[1], ds) ELSE ds)
         IN  IF <<a.outp>> \notin made
             THEN [ok |-> FALSE, dirs |-> made]
             ELSE [ok |-> TRUE, dirs |-> Mkdirs(a.outp, made)]

\* get_regions(dir): the region files of the directory, as a list
GetRegions(d, dir) ==
    LET S == {f \in Names : d[<<dir, f>>] # <<>>}
    IN  [i \in 1..Cardinality(S) |-> CHOOSE f \in S : Cardinality({g \in S : g < f}) = i - 1]

\* for i, r in enumerate(regions): work[i % parallel].append(r)
RECURSIVE PartitionLoop(_, _, _, _)
PartitionLoop(w, regions, i, n) ==
    IF i >= Len(regions) THEN w
    ELSE PartitionLoop([w EXCEPT ![(i % n) + 1] = Append(@, regions[i + 1])], regions, i + 1, n)

Partition(regions, n) == PartitionLoop([k \in 1..n |-> <<>>], regions, 0, n)

\* process_batch called with a work list: at its first file, or done at once
NewTask(list) ==
    [pos |-> 1, phase |-> IF list = <<>> THEN "finished" ELSE "next", cd |-> <<>>, dirty |-> FALSE]

\* process_region returned: the loop of process_batch takes the next file
Advance(t, list) ==
    [pos |-> t.pos + 1,
     phase |-> IF t.pos + 1 > Len(list) THEN "finished" ELSE "next",
     cd |-> <<>>, dirty |-> FALSE]

Access(w, op, dir, f) == [w |-> w, op |-> op, path |-> <<dir, f>>]

InitBatch ==
    /\ \E entry \in {"cli", "main"}, outp \in {"a", "b"},
          backup \in {<<>>, <<"a">>, <<"b">>, <<"c">>},
          parallel \in {<<>>} \cup {<<n>> : n \in 1..MaxWorkers} :
         /\ entry = "main" => parallel = <<>>
         /\ args = [entry |-> entry, inp |-> "a", outp |-> outp, backup |-> backup,
                    parallel |-> parallel]
    /\ \E top \in SUBSET Dirs : \E laid \in SUBSET (top \cap {args.inp}) :
         dirs = {<<d>> : d \in top} \cup {<<d, sub>> : d \in laid, sub \in Subdirs}
    /\ \E n \in 0..MaxFiles : \E files \in [1..n -> BatchFiles] :
         /\ RegionDir(args, args.inp) \notin dirs => n = 0
         /\ disk = [p \in Dirs \X Names |->
                       IF p[1] = args.inp /\ p[2] <= n THEN <<files[p[2]]>> ELSE <<>>]
    /\ work = <<>>
    /\ task = <<>>
    /\ orch = "start"
    /\ touched = {}
    /\ started = [f \in Names |-> 0]
    /\ input = [loc |-> <<>>, ts |-> <<>>, data |-> <<>>]
    /\ pc = "new"
    /\ chunk_data = <<>>
    /\ dirty = FALSE
    /\ output = <<>>
    /\ lastPred = {}
    /\ calls = {}
    /\ entity_data = <<>>
    /\ raised = FALSE
    /\ fs = NoFiles
    /\ cfg = [inplace |-> FALSE, backup |-> FALSE]
    /\ ops = <<>>
    /\ NoScan

\* paths = Paths(inp, outp, backup)
BPaths ==
    /\ orch = "start"
    /\ args.entry = "cli"
    /\ LET p == PathsInit(args, dirs)
       IN  /\ orch' = IF p.ok THEN "ready" ELSE "rejected"
           /\ dirs' = p.dirs
    /\ UNCHANGED <<fileVars, scanVars, args, disk, work, task, touched, started>>

\* run(): the whole list for process_batch, or one work list per worker
BPartition ==
    /\ orch = "ready"
    /\ work' = IF args.parallel = <<>>
               THEN <<GetRegions(disk, args.inp)>>
               ELSE Partition(GetRegions(disk, args.inp), args.parallel[1])
    /\ task' = [w \in DOMAIN work' |-> NewTask(work'[w])]
    /\ orch' = "running"
    /\ UNCHANGED <<fileVars, scanVars, args, dirs, disk, touched, started>>

\* The file process_batch of work list w is at
Current(w) == work[w][task[w].pos]

\* process_region: region = RegionFile.from_file(region_path); region.trim(criteria)
BLoad(w) ==
    /\ orch = "running"
    /\ task[w].phase = "next"
    /\ LET f == Current(w)
           r == RegionInit(disk[<<args.inp, f>>][1])
           t == RegionTrim(BatchCriteria, r.cd, FALSE)
       IN  /\ task' = [task EXCEPT ![w] =
                          IF r.ok
                          THEN [@ EXCEPT !.phase = "trimmed", !.cd = t.cd, !.dirty = t.dirty]
                          ELSE [@ EXCEPT !.phase = "raised"]]
           /\ touched' = touched \cup {Access(w, "read", args.inp, f)}
           /\ started' = [started EXCEPT ![f] = @ + 1]
    /\ UNCHANGED <<fileVars, scanVars, args, dirs, disk, work, orch>>

\* if region.dirty: if paths.backup_region is not None: shutil.copy2(...)
BBackup(w) ==
    /\ orch = "running"
    /\ task[w].phase = "trimmed"
    /\ task[w].dirty
    /\ args.backup # <<>>
    /\ LET f == Current(w)
       IN  /\ disk' = [disk EXCEPT ![<<args.backup[1], f>>] = disk[<<args.inp, f>>]]
           /\ touched' = touched \cup {Access(w, "read", args.inp, f),
                                       Access(w, "write", args.backup[1], f)}
    /\ task' = [task EXCEPT ![w].phase = "backed"]
    /\ UNCHANGED <<fileVars, scanVars, args, dirs, work, orch, started>>

\* region.save_to_file(paths.outp_region / region_path.name)
BSave(w) ==
    /\ orch = "running"
    /\ \/ task[w].phase = "trimmed" /\ task[w].dirty /\ args.backup = <<>>
       \/ task[w].phase = "backed"
    /\ LET f == Current(w)
           r == SaveToFile(task[w].cd, disk, <<args.outp, f>>)
       IN  /\ r.ok
           /\ disk' = r.fs
           /\ touched' = IF r.written
                         THEN touched \cup {Access(w, "write", args.outp, f)}
                         ELSE touched
    /\ task' = [task EXCEPT ![w] = Advance(@, work[w])]
    /\ UNCHANGED <<fileVars, scanVars, args, dirs, work, orch, started>>

\* else: if region_path != out: shutil.copy2(region_path, out)
BCopy(w) ==
    /\ orch = "running"
    /\ task[w].phase = "trimmed"
    /\ ~task[w].dirty
    /\ args.inp # args.outp
    /\ LET f == Current(w)
       IN  /\ disk' = [disk EXCEPT ![<<args.outp, f>>] = disk[<<args.inp, f>>]]
           /\ touched' = touched \cup {Access(w, "read", args.inp, f),
                                       Access(w, "write", args.outp, f)}
    /\ task' = [task EXCEPT ![w] = Advance(@, work[w])]
    /\ UNCHANGED <<fileVars, scanVars, args, dirs, work, orch, started>>

\* else: the paths coincide, nothing is done
BUnchanged(w) ==
    /\ orch = "running"
    /\ task[w].phase = "trimmed"
    /\ ~task[w].dirty
    /\ args.inp = args.outp
    /\ task' = [task EXCEPT ![w] = Advance(@, work[w])]
    /\ UNCHANGED <<fileVars, scanVars, args, dirs, disk, work, orch, touched, started>>

\* A pool whose map raises at the first failure, the other work lists
\* being cut short by the pool's termination
BJoinFirstFailure ==
    /\ orch = "running"
    /\ \/ \A w \in DOMAIN task : task[w].phase \in {"finished", "raised"}
       \/ \E w \in DOMAIN task : task[w].phase = "raised"
    /\ orch' = IF \E w \in DOMAIN task : task[w].phase = "raised" THEN "failed" ELSE "joined"
    /\ UNCHANGED <<fileVars, scanVars, args, dirs, disk, work, task, touched, started>>

\* process_batch(...) returns or raises; p.map(...) returns, or raises the
\* first exception, once every work list has been run to its end
BJoin ==
    /\ orch = "running"
    /\ \A w \in DOMAIN task : task[w].phase \in {"finished", "raised"}
    /\ orch' = IF \E w \in DOMAIN task : task[w].phase = "raised" THEN "failed" ELSE "joined"
    /\ UNCHANGED <<fileVars, scanVars, args, dirs, disk, work, task, touched, started>>

\* __main__.run: assert backup != inp; assert backup != outp; then
\* get_regions(inp), which raises unless inp is an existing directory.
\* No directory is made; the region files are those of inp itself.
MRun ==
    /\ orch = "start"
    /\ args.entry = "main"
    /\ IF args.backup # <<args.inp>> /\ args.backup # <<args.outp>> /\ <<args.inp>> \in dirs
       THEN /\ work' = <<GetRegions(disk, args.inp)>>
            /\ task' = <<NewTask(work'[1])>>
            /\ orch' = "main"
       ELSE /\ orch' = "rejected"
            /\ UNCHANGED <<work, task>>
    /\ UNCHANGED <<fileVars, scanVars, args, dirs, disk, touched, started>>

\* region = Region.from_file(r); region.trim(criteria)
MLoad ==
    /\ orch = "main"
    /\ task[1].phase = "next"
    /\ LET f == Current(1)
           r == RegionInit(disk[<<args.inp, f>>][1])
           t == RegionTrim(BatchCriteria, r.cd, FALSE)
       IN  /\ task' = [task EXCEPT ![1] =
                          IF r.ok
                          THEN [@ EXCEPT !.phase = "trimmed", !.cd = t.cd, !.dirty = t.dirty]
                          ELSE [@ EXCEPT !.phase = "raised"]]
           /\ touched' = touched \cup {Access(1, "read", args.inp, f)}
           /\ started' = [started EXCEPT ![f] = @ + 1]
    /\ UNCHANGED <<fileVars, scanVars, args, dirs, disk, work, orch>>

\* if region.dirty: if backup: shutil.copy2(r, backup / r.name), which
\* raises FileNotFoundError when the backup directory does not exist
MBackup ==
    /\ orch = "main"
    /\ task[1].phase = "trimmed"
    /\ task[1].dirty
    /\ args.backup # <<>>
    /\ LET f == Current(1)
       IN  IF args.backup \in dirs
           THEN /\ disk' = [disk EXCEPT ![<<args.backup[1], f>>] = disk[<<args.inp, f>>]]
                /\ touched' = touched \cup {Access(1, "read", args.inp, f),
                                            Access(1, "write", args.backup[1], f)}
                /\ task' = [task EXCEPT ![1].phase = "backed"]
           ELSE /\ touched' = touched \cup {Access(1, "read", args.inp, f)}
                /\ task' = [task EXCEPT ![1].phase = "raised"]
                /\ UNCHANGED disk
    /\ UNCHANGED <<fileVars, scanVars, args, dirs, work, orch, started>>

\* region.save_to_file(outp / r.name): data = bytes(self) rewrites the
\* locations and timestamps of the container, then open(region, "wb")
\* raises FileNotFoundError when the output directory does not exist
MSave ==
    /\ orch = "main"
    /\ \/ task[1].phase = "trimmed" /\ task[1].dirty /\ args.backup = <<>>
       \/ task[1].phase = "backed"
    /\ LET f == Current(1)
           r == SaveToFile(task[1].cd, disk, <<args.outp, f>>)
       IN  /\ r.ok
           /\ IF r.written /\ <<args.outp>> \notin dirs
              THEN /\ task' = [task EXCEPT ![1].phase = "raised", ![1].cd = r.cd]
                   /\ UNCHANGED <<disk, touched>>
              ELSE /\ disk' = r.fs
                   /\ touched' = IF r.written
                                 THEN touched \cup {Access(1, "write", args.outp, f)}
                                 ELSE touched
                   /\ task' = [task EXCEPT ![1] = Advance(@, work[1])]
    /\ UNCHANGED <<fileVars, scanVars, args, dirs, work, orch, started>>

\* region.dirty is false: the loop goes to the next file, nothing is copied
MSkip ==
    /\ orch = "main"
    /\ task[1].phase = "trimmed"
    /\ ~task[1].dirty
    /\ task' = [task EXCEPT ![1] = Advance(@, work[1])]
    /\ UNCHANGED <<fileVars, scanVars, args, dirs, disk, work, orch, touched, started>>

\* The loop is over, or an exception has ended run()
MEnd ==
    /\ orch = "main"
    /\ task[1].phase \in {"finished", "raised"}
    /\ orch' = IF task[1].phase = "raised" THEN "failed" ELSE "joined"
    /\ UNCHANGED <<fileVars, scanVars, args, dirs, disk, work, task, touched, started>>

NextBatch ==
    \/ BPaths
    \/ BPartition
    \/ \E w \in DOMAIN task : BLoad(w)
    \/ \E w \in DOMAIN task : BBackup(w)
    \/ \E w \in DOMAIN task : BSave(w)
    \/ \E w \in DOMAIN task : BCopy(w)
    \/ \E w \in DOMAIN task : BUnchanged(w)
    \/ BJoin
    \/ MRun
    \/ MLoad
    \/ MBackup
    \/ MSave
    \/ MSkip
    \/ MEnd

SpecBatch == InitBatch /\ [][NextBatch]_vars

---------------------------------------------------------------------------
(* fast_get_property: the scan of a decompressed field stream *)

MaxHead == 5

\* Strategy(typ, payload_size, unpack, resulting_type): typ is one byte
BYTE_STRATEGY == [typ |-> 1, payload_size |-> 1, unpack |-> ">c"]
INT_STRATEGY == [typ |-> 3, payload_size |-> 4, unpack |-> ">i"]
LONG_STRATEGY == [typ |-> 4, payload_size |-> 8, unpack |-> ">Q"]
FLOAT_STRATEGY == [typ |-> 5, payload_size |-> 4, unpack |-> ">f"]
DOUBLE_STRATEGY == [typ |-> 6, payload_size |-> 8, unpack |-> ">d"]

Strategies ==
    {BYTE_STRATEGY, INT_STRATEGY, LONG_STRATEGY, FLOAT_STRATEGY, DOUBLE_STRATEGY}

\* strategy.typ + struct.pack(">H", len(name)) + name
PropSequence(name, strategy) ==
    <<strategy.typ>> \o <<(Len(name) \div 256) % 256, Len(name) % 256>> \o name

\* bytes.find(sub): the lowest 0-based index where sub starts, -1 if none
Find(s, sub) ==
    LET at == {i \in 0..(Len(s) - Len(sub)) : SubSeq(s, i + 1, i + Len(sub)) = sub}
    IN  IF at = {} THEN -1 ELSE CHOOSE i \in at : \A j \in at : i <= j

\* data[lo:hi] of a bytes object: the bounds are clamped to the data
BytesSlice(s, lo, hi) == SubSeq(s, lo + 1, Min(hi, Len(s)))

\* An unsigned integer too wide for the checker's integers: its base-256
\* digits, most significant first, without leading zeros (0 is <<>>)
RECURSIVE Digits(_)
Digits(b) == IF b = <<>> \/ b[1] # 0 THEN b ELSE Digits(Tail(b))

\* struct.unpack(fmt, b) for the five formats in use, b of the format's size.
\* ">c" gives a bytes object of length 1, ">i" a signed 32-bit integer, ">Q"
\* an unsigned 64-bit integer, ">f" and ">d" an IEEE 754 binary32/binary64
\* number, given by its sign, biased exponent and fraction field (the
\* 52-bit fraction as its top 4 bits followed by 6 bytes).
Unpack(fmt, b) ==
    CASE fmt = ">c" -> b
      [] fmt = ">i" -> (IF b[1] >= 128 THEN b[1] - 256 ELSE b[1]) * 16777216
                          + b[2] * 65536 + b[3] * 256 + b[4]
      [] fmt = ">Q" -> Digits(b)
      [] fmt = ">f" -> [sign |-> b[1] \div 128,
                        exponent |-> (b[1] % 128) * 2 + b[2] \div 128,
                        fraction |-> (b[2] % 128) * 65536 + b[3] * 256 + b[4]]
      [] fmt = ">d" -> [sign |-> b[1] \div 128,
                        exponent |-> (b[1] % 128) * 16 + b[2] \div 16,
                        fraction |-> <<b[2] % 16>> \o SubSeq(b, 3, 8)]

\* The scan reading the last occurrence of the pattern instead of the first
FastGetPropertyLast(decompressed_data, name, strategy) ==
    LET prop_sequence == PropSequence(name, strategy)
        at == {i \in 0..(Len(decompressed_data) - Len(prop_sequence)) :
                  SubSeq(decompressed_data, i + 1, i + Len(prop_sequence)) = prop_sequence}
        start == IF at = {} THEN -1 ELSE CHOOSE i \in at : \A j \in at : j <= i
        payload == BytesSlice(decompressed_data, start + Len(prop_sequence),
                              start + Len(prop_sequence) + strategy.payload_size)
    IN  IF start < 0 THEN [status |-> "not found", value |-> <<>>]
        ELSE IF Len(payload) # strategy.payload_size
             THEN [status |-> "unpack error", value |-> <<>>]
             ELSE [status |-> "value", value |-> <<Unpack(strategy.unpack, payload)>>]

\* fast_get_property / Chunk._fast_get_property. The outcome is the value
\* returned, the Exception "Prop ... not found!", or the struct.error that
\* unpack raises for a slice shorter than the format.
FastGetProperty(decompressed_data, name, strategy) ==
    LET prop_sequence == PropSequence(name, strategy)
        start == Find(decompressed_data, prop_sequence)
        payload == BytesSlice(decompressed_data, start + Len(prop_sequence),
                              start + Len(prop_sequence) + strategy.payload_size)
    IN  IF start < 0 THEN [status |-> "not found", value |-> <<>>]
        ELSE IF Len(payload) # strategy.payload_size
             THEN [status |-> "unpack error", value |-> <<>>]
             ELSE [status |-> "value", value |-> <<Unpack(strategy.unpack, payload)>>]

\* Field streams: every byte string of at most MaxHead bytes over the bytes
\* a pattern is made of, followed by a prefix of a fixed tail that supplies
\* payload bytes, a high byte among them.
Filler == <<0, 0, 255, 0, 0, 0, 4, 176>>

FieldNames == {<<>>, <<120>>}

HeadBytes(strategy) == {0, 1, strategy.typ, 120}

Streams(strategy) ==
    {head \o SubSeq(Filler, 1, k) :
        head \in UNION {[1..n -> HeadBytes(strategy)] : n \in 0..MaxHead},
        k \in 0..Len(Filler)}

InitScan ==
    /\ \E strategy \in Strategies : \E name \in FieldNames :
       \E data \in Streams(strategy) :
         scan = [data |-> data, name |-> name, strategy |-> strategy, result |-> <<>>]
    /\ input = [loc |-> <<>>, ts |-> <<>>, data |-> <<>>]
    /\ pc = "new"
    /\ chunk_data = <<>>
    /\ dirty = FALSE
    /\ output = <<>>
    /\ lastPred = {}
    /\ calls = {}
    /\ entity_data = <<>>
    /\ raised = FALSE
    /\ fs = NoFiles
    /\ cfg = [inplace |-> FALSE, backup |-> FALSE]
    /\ ops = <<>>
    /\ NoBatch

\* value = fast_get_property(decompressed_data, name, strategy)
Scan ==
    /\ scan.result = <<>>
    /\ scan' = [scan EXCEPT !.result =
                   <<FastGetProperty(scan.data, scan.name, scan.strategy)>>]
    /\ UNCHANGED <<input, pc, output, regionVars, entVars, pipeVars, batchVars>>

NextScan == Scan

SpecScan == InitScan /\ [][NextScan]_vars

---------------------------------------------------------------------------
(* Shared vocabulary of the properties *)

Used(f) == {i \in 1..Len(f.loc) : LocFromBytes(f.loc[i]).size > 0}

SectorsOf(f, i) ==
    LET loc == LocFromBytes(f.loc[i]) IN loc.offset..(loc.offset + loc.size - 1)

\* The file is its two tables followed by exactly the payloads of its slots:
\* contiguous from sector 2, no gap, no overlap, nothing after the last
\* payload, and every unused slot has a zero location and a zero timestamp.
Packed(f) ==
    /\ \A i \in (1..Len(f.loc)) \ Used(f) : f.loc[i] = ZeroEntry /\ f.ts[i] = ZeroEntry
    /\ \A i, j \in Used(f) : i # j => SectorsOf(f, i) \cap SectorsOf(f, j) = {}
    /\ UNION {SectorsOf(f, i) : i \in Used(f)} = FirstSector..(Len(f.data) + 1)

\* The sectors a table entry of a serialized file points at
Payload(f, entry) == Slice(f, LocFromBytes(entry))

NonEmpty(cd) == {i \in 1..Len(cd) : cd[i].chunk # <<>>}

---------------------------------------------------------------------------
(* C1 *)

\* C1: a container that is packed (payloads contiguous from sector 2, unused
\* slots all zero), loaded and serialized again without clearing any slot,
\* gives back exactly the bytes of the input.
C1_IdempotentRepacking ==
    (pc = "loaded" /\ output # <<>> /\ ~dirty /\ Packed(input)) => output[1] = input

\* The same statement for region containers alone (Region.__bytes__)
C1_RegionRepacking ==
    (pc = "loaded" /\ output # <<>> /\ ~dirty /\ chunk_data # <<>> /\ Packed(input))
        => output[1] = input

C1_RegionWitness ==
    /\ pc = "loaded" /\ output # <<>> /\ ~dirty /\ Packed(input)
    /\ Cardinality(Used(input)) = NumSlots
    /\ LocFromBytes(input.loc[1]).offset > LocFromBytes(input.loc[2]).offset

---------------------------------------------------------------------------
(* C2 *)

\* C2: when the criteria match no record of a loadable container, the
\* container is not dirty and the file at the output path afterwards is
\* byte-identical to the input, whatever the layout of the input.
C2_NothingMatched ==
    (pc = "done" /\ lastPred = {}) => (~dirty /\ fs[OutPath] = <<input>>)

\* reached: a finished run that matched nothing, on a container whose own
\* serialization differs from the input (a gap, or payloads out of order)
C2_Witness ==
    /\ pc = "done" /\ lastPred = {}
    /\ NonEmpty(chunk_data) # {}
    /\ ~Packed(input)
    /\ RegionBytes(chunk_data).bytes # input

---------------------------------------------------------------------------
(* C3 *)

\* A step of trim: the container stays loaded, the result of an earlier
\* serialization is dropped, and something of the trim's record changes.
TrimStep ==
    /\ pc = "loaded" /\ pc' = "loaded"
    /\ output' = <<>>
    /\ <<regionVars, output>>' # <<regionVars, output>>

\* C3: trim(predicate) clears exactly the slots that are non-empty and match
\* the predicate, leaves every other payload as it was, and evaluates the
\* predicate on no slot whose payload is empty.
C3_TrimClearsExactly ==
    [][TrimStep =>
        /\ \A i \in 1..NumSlots :
              chunk_data'[i].chunk =
                 IF chunk_data[i].chunk # <<>> /\ Content(chunk_data[i].chunk) \in lastPred'
                 THEN <<>> ELSE chunk_data[i].chunk
        /\ \A i \in 1..NumSlots : chunk_data[i].chunk = <<>> => (i - 1) \notin calls'
    ]_vars

\* reached: a trim that cleared one slot and kept another
C3_Witness ==
    /\ pc = "loaded" /\ lastPred # {}
    /\ \E i, j \in 1..NumSlots :
          /\ chunk_data[i].chunk = <<>> /\ (i - 1) \in calls
          /\ chunk_data[j].chunk # <<>> /\ (j - 1) \in calls

---------------------------------------------------------------------------
(* C4 *)

\* The round trip of the surviving records for region containers alone
\* (Region.__bytes__): after trims and a serialization, every slot that
\* still has a payload has an output entry with size > 0 pointing at exactly
\* the payload bytes that were loaded for it, and the timestamp it had in
\* the input; loading the output gives those payloads and timestamps back,
\* and an empty slot at every other index.
C4_RegionRoundTrip ==
    (pc = "loaded" /\ output # <<>>) =>
        LET out == output[1]
            again == RegionInit(out)
        IN  /\ Len(out.loc) = NumSlots /\ Len(out.ts) = NumSlots
            /\ \A i \in NonEmpty(chunk_data) :
                  /\ i \in Used(out)
                  /\ Payload(out, out.loc[i]) = Payload(input, input.loc[i])
                  /\ out.ts[i] = input.ts[i]
            /\ again.ok
            /\ \A i \in 1..NumSlots :
                  IF i \in NonEmpty(chunk_data)
                  THEN /\ again.cd[i].chunk = Payload(input, input.loc[i])
                       /\ again.cd[i].timestamp = TsFromBytes(input.ts[i])
                  ELSE again.cd[i].chunk = <<>>

\* reached: a serialization after a trim that cleared the payload lying
\* first in the file and kept a later one, which therefore moved
C4_RegionWitness ==
    /\ pc = "loaded" /\ output # <<>> /\ dirty
    /\ \E i \in NonEmpty(chunk_data) :
          /\ LocFromBytes(output[1].loc[i]).offset < LocFromBytes(input.loc[i]).offset
          /\ TsFromBytes(output[1].ts[i]) # 0

---------------------------------------------------------------------------
(* C5 *)

\* C5: when no slot is left non-empty after trimming, saving leaves no file
\* at the output path (a file already there is removed); otherwise the
\* serialized bytes are at the output path.
C5_EmptyContainerDeleted ==
    (pc = "done" /\ dirty) =>
        IF NonEmpty(chunk_data) = {}
        THEN fs[OutPath] = <<>>
        ELSE fs[OutPath] = output

---------------------------------------------------------------------------
(* C6 *)

\* C6: whatever subset of the indices the in-memory list holds, each
\* serialized table has exactly one entry per index, the entry of index i
\* is the i-th entry, and an index with no in-memory slot has a zero entry.
C6_FixedTableShape ==
    (pc = "loaded" /\ output # <<>>) =>
        LET out == output[1]
            held == IF chunk_data # <<>> THEN chunk_data ELSE entity_data
            n == Len(input.loc)
        IN  /\ Len(out.loc) = n
            /\ Len(out.ts) = n
            /\ \A i \in 1..n :
                  IF \E k \in 1..Len(held) : held[k].index + 1 = i
                  THEN \E k \in 1..Len(held) :
                          /\ held[k].index + 1 = i
                          /\ out.loc[i] = LocToBytes(held[k].location)
                          /\ out.ts[i] = TsToBytes(held[k].timestamp)
                  ELSE out.loc[i] = ZeroEntry /\ out.ts[i] = ZeroEntry

---------------------------------------------------------------------------
(* C7 *)

\* C7: once a slot's payload is empty it stays empty, through any further
\* trim and any serialization: the set of non-empty slots never grows.
C7_MonotonicClearing ==
    [][(pc = "loaded" /\ pc' = "loaded") =>
          \A i \in 1..NumSlots :
             chunk_data[i].chunk = <<>> => chunk_data'[i].chunk = <<>>]_vars

\* reached: a slot that was loaded with a payload is empty, and the last
\* trim call, made after it was cleared, did not evaluate it
C7_Witness ==
    /\ pc = "loaded" /\ output # <<>>
    /\ \E i \in Used(input) : chunk_data[i].chunk = <<>> /\ (i - 1) \notin calls
    /\ calls # {}

---------------------------------------------------------------------------
(* C8 *)

\* C8: dirty is true exactly when some slot that had a payload at load has
\* none now (so it is false right after load), and it never goes back from
\* true to false.
C8_DirtyFlag ==
    /\ [](pc = "loaded" =>
            (dirty <=> \E i \in Used(input) : chunk_data[i].chunk = <<>>))
    /\ [][(pc = "loaded" /\ pc' = "loaded" /\ dirty) => dirty']_vars

\* reached: a container that stayed dirty through a later trim call that
\* cleared nothing
C8_Witness ==
    /\ pc = "loaded" /\ dirty
    /\ NonEmpty(chunk_data) # {}
    /\ \A i \in NonEmpty(chunk_data) : (i - 1) \in calls
    /\ \A i \in 1..NumSlots : chunk_data[i].chunk = <<>> => (i - 1) \notin calls

---------------------------------------------------------------------------
(* C9 *)

\* C9: after compaction every non-empty slot has a payload whose length is
\* a multiple of 4096, and its location.size is that length / 4096, between
\* 1 and 255.
C9_SectorAlignment ==
    (pc = "loaded" /\ output # <<>>) =>
        \A i \in NonEmpty(chunk_data) :
            /\ ByteLen(chunk_data[i].chunk) % 4096 = 0
            /\ chunk_data[i].location.size * 4096 = ByteLen(chunk_data[i].chunk)
            /\ chunk_data[i].location.size \in 1..255
            /\ LocFromBytes(output[1].loc[i]).size = chunk_data[i].location.size

\* reached: a compacted slot whose size in the input table was larger than
\* the payload the file held for it
C9_Witness ==
    /\ pc = "loaded" /\ output # <<>>
    /\ \E i \in NonEmpty(chunk_data) :
          chunk_data[i].location.size < LocFromBytes(input.loc[i]).size

---------------------------------------------------------------------------
(* C10 *)

\* C10: a processed file ends in exactly one of three ways: dirty, and the
\* container was compacted and saved to the output path (after the backup,
\* when one is configured), never copied; not dirty with distinct paths, and
\* the original was copied unchanged to the output path, never serialized;
\* not dirty with coinciding paths, and nothing was written.
C10_PipelineOutcome ==
    /\ ops # <<>> => pc \in {"backed", "done"}
    /\ pc = "done" =>
        \/ /\ dirty
           /\ \/ ops = IF cfg.backup THEN <<"backup", "save:write">> ELSE <<"save:write">>
              \/ ops = IF cfg.backup THEN <<"backup", "save:nothing">> ELSE <<"save:nothing">>
           /\ output = <<RegionBytes(chunk_data).bytes>>
           /\ ops[Len(ops)] = "save:write" => fs[OutPath] = output
        \/ /\ ~dirty /\ InPath # OutPath
           /\ ops = <<"copy">>
           /\ output = <<>>
           /\ fs[OutPath] = <<input>> /\ fs[InPath] = <<input>> /\ fs[BackupPath] = <<>>
        \/ /\ ~dirty /\ InPath = OutPath
           /\ ops = <<>>
           /\ output = <<>>
           /\ fs = [p \in Paths |-> IF p = InPath THEN <<input>> ELSE <<>>]

\* reached: all three outcomes exist; this one is a dirty container saved
\* after its backup, with a payload that moved
C10_Witness ==
    /\ pc = "done" /\ dirty /\ cfg.backup
    /\ ops = <<"backup", "save:write">>
    /\ fs[OutPath] # <<input>>

---------------------------------------------------------------------------
(* C11 *)

\* The positions of the file operations of one kind in ops
OpsAt(kinds) == {i \in 1..Len(ops) : ops[i] \in kinds}

\* C11: a backup copy is made only when a backup location is configured and
\* the container became dirty; it is made before the output path is written,
\* so the backup holds the original bytes of the file, also when the output
\* path is the input path.
C11_BackupOrdering ==
    /\ \A i \in OpsAt({"backup"}) : cfg.backup /\ dirty /\ i = 1
    /\ fs[BackupPath] # <<>> <=> OpsAt({"backup"}) # {}
    /\ fs[BackupPath] \in {<<>>, <<input>>}
    /\ (OpsAt({"save:write", "save:nothing"}) # {} /\ cfg.backup) => fs[BackupPath] = <<input>>
    /\ pc = "done" => (fs[BackupPath] = <<input>> <=> (cfg.backup /\ dirty))

\* reached: an in-place run with a backup whose save has overwritten the input
C11_Witness ==
    /\ pc = "done" /\ cfg.inplace /\ cfg.backup /\ dirty
    /\ ops = <<"backup", "save:write">>
    /\ fs[InPath] # <<input>>
    /\ fs[BackupPath] = <<input>>

---------------------------------------------------------------------------
(* C12 *)

\* C12: when the load fails or the criteria raise, no file operation has
\* been made and the output path holds what it held; the output path is
\* written only with the complete result of a serialization that succeeded.
C12_NoPartialOutput ==
    /\ []((pc = "failed" \/ raised) => ops = <<>>)
    /\ [][(pc' = "failed" \/ raised') => fs' = fs]_vars
    /\ [][ops' = ops => fs' = fs]_vars
    /\ [][fs'[OutPath] # fs[OutPath] =>
            \/ output' # <<>> /\ fs'[OutPath] = output' /\ output'[1] = RegionBytes(chunk_data).bytes
            \/ ~dirty' /\ fs'[OutPath] = fs[InPath]]_vars

\* reached: the criteria raised after an earlier chunk had been cleared in
\* memory, in place with a backup configured; the file is as it was
C12_Witness ==
    /\ pc = "failed" /\ raised /\ dirty
    /\ cfg.inplace /\ cfg.backup
    /\ fs[OutPath] = <<input>> /\ fs[BackupPath] = <<>>

\* reached: a load that failed with a file already at the output path
C12_LoadWitness ==
    /\ pc = "failed" /\ ~raised /\ ~cfg.inplace
    /\ fs[OutPath] = <<OldFile>>

---------------------------------------------------------------------------
(* C13 - C16: the batch *)

\* The orchestrator has the outcome of the batch
BatchOver == orch \in {"joined", "failed"}

\* from_file fails on the file
Fails(f) == ~RegionInit(disk[<<args.inp, f>>][1]).ok

\* The positions of the failing files in a work list
FailingAt(list) == {i \in 1..Len(list) : Fails(list[i])}

\* process_region was called once for the file and has returned: the loop
\* of process_batch that holds the file has moved past it. A call that
\* raised, or that is under way, leaves the loop at the file.
Processed(f) ==
    /\ started[f] = 1
    /\ \E w \in DOMAIN task : \E i \in 1..Len(work[w]) :
          work[w][i] = f /\ task[w].pos > i

\* C13: when a file fails, the orchestrator reports the failure and goes on:
\* at the end of a batch of cli.run every file has been processed or has
\* failed, the files after a failing one included.
C13_SkipAndContinue ==
    (args.entry = "cli" /\ BatchOver) =>
        /\ \A w \in DOMAIN work : \A i \in 1..Len(work[w]) :
              started[work[w][i]] = 1 /\ (Fails(work[w][i]) \/ Processed(work[w][i]))
        /\ orch = "failed" <=> \E w \in DOMAIN work : FailingAt(work[w]) # {}

\* C14: in parallel mode a failing file ends its own work list only; the
\* other work lists are run to their end, the orchestrator goes on only when
\* every work list is over, and it gets the failure.
C14_WorkerIsolation ==
    (args.parallel # <<>> /\ BatchOver) =>
        /\ \A w \in DOMAIN task :
              LET bad == FailingAt(work[w])
              IN  IF bad = {}
                  THEN /\ task[w].phase = "finished"
                       /\ \A i \in 1..Len(work[w]) : Processed(work[w][i])
                  ELSE /\ task[w].phase = "raised"
                       /\ \A i \in 1..Len(work[w]) :
                             /\ (\A j \in bad : i < j) => Processed(work[w][i])
                             /\ (\A j \in bad : i <= j) <=> started[work[w][i]] = 1
        /\ orch = "failed" <=> \E w \in DOMAIN task : task[w].phase = "raised"

\* reached: two work lists, the first fails at its first file and leaves a
\* second file unprocessed, the other list was run to its end
C14_Witness ==
    /\ args.parallel = <<2>> /\ orch = "failed"
    /\ Len(work[1]) = 2 /\ Len(work[2]) = 1
    /\ task[1].phase = "raised" /\ task[1].pos = 1
    /\ task[2].phase = "finished" /\ Processed(work[2][1])
    /\ started[work[1][2]] = 0

\* No file of the run has been read or written
NothingTouched ==
    /\ touched = {}
    /\ \A f \in Names : started[f] = 0
    /\ \A p \in Dirs \X Names : p[1] # args.inp => disk[p] = <<>>

\* The location of the command line that Paths cannot lay out: the backup
\* or the output directory does not exist
Missing == (args.backup # <<>> /\ args.backup \notin dirs) \/ <<args.outp>> \notin dirs

\* C15 as stated: a configuration is processed only when input, output and
\* backup locations are pairwise distinct, and a rejected configuration has
\* read and written nothing.
C15_PairwiseDistinct ==
    args.entry = "cli" =>
        /\ orch \notin {"start", "rejected"} =>
              /\ args.backup # <<args.inp>>
              /\ args.backup # <<args.outp>>
              /\ args.inp # args.outp
        /\ orch = "rejected" => NothingTouched

\* C15, amended: a configuration is rejected exactly when the backup
\* location is the input or the output location, or one of the directories
\* given does not exist; input and output may coincide; a rejected
\* configuration has read and written no file.
C15_BackupDistinct ==
    args.entry = "cli" =>
        /\ orch \notin {"start", "rejected"} =>
              /\ args.backup # <<args.inp>>
              /\ args.backup # <<args.outp>>
              /\ <<args.inp>> \in dirs
              /\ ~Missing
        /\ orch = "rejected" =>
              /\ \/ args.backup = <<args.inp>>
                 \/ args.backup = <<args.outp>>
                 \/ <<args.inp>> \notin dirs
                 \/ Missing
              /\ NothingTouched
        /\ orch \in {"start", "rejected"} => NothingTouched

\* reached: a configuration rejected because backup and output coincide,
\* every directory being there and region files waiting in the input
C15_Witness ==
    /\ orch = "rejected"
    /\ args.entry = "cli"
    /\ args.backup = <<args.outp>> /\ args.inp # args.outp
    /\ <<args.inp>> \in dirs /\ <<args.outp>> \in dirs
    /\ disk[<<args.inp, 1>>] # <<>>

\* reached: a configuration rejected because the output directory does not
\* exist, after the sub-directories of the input were made
C15_MissingWitness ==
    /\ orch = "rejected"
    /\ args.entry = "cli"
    /\ args.backup # <<args.inp>> /\ args.backup # <<args.outp>>
    /\ <<args.outp>> \notin dirs
    /\ <<args.inp, "poi">> \in dirs
    /\ disk[<<args.inp, 1>>] # <<>>

\* reached: an accepted in-place run that rewrote a file
C15_InPlaceWitness ==
    /\ orch = "joined"
    /\ args.entry = "cli"
    /\ args.inp = args.outp /\ args.backup # <<>>
    /\ \E t \in touched : t.op = "write" /\ t.path[1] = args.outp

\* C11 for the loop of __main__.run: a step that changes a file of the
\* output location finds the original of that file in the backup location,
\* when one is configured; a step that changes a file of the backup
\* location belongs to a dirty container, stores the bytes of the input file
\* and leaves the output location alone.
C11_MainBackupOrdering ==
    [][(args.entry = "main" /\ args.backup # <<>>) =>
          \A f \in Names :
             /\ disk'[<<args.outp, f>>] # disk[<<args.outp, f>>] =>
                   /\ disk[<<args.backup[1], f>>] # <<>>
                   /\ disk[<<args.backup[1], f>>] = disk[<<args.inp, f>>]
             /\ disk'[<<args.backup[1], f>>] # disk[<<args.backup[1], f>>] =>
                   /\ task[1].dirty
                   /\ disk'[<<args.backup[1], f>>] = disk[<<args.inp, f>>]
                   /\ disk'[<<args.outp, f>>] = disk[<<args.outp, f>>]]_vars

\* reached: __main__.run rewrote a file in place after backing it up
C11_MainWitness ==
    /\ args.entry = "main" /\ orch = "joined"
    /\ args.inp = args.outp /\ args.backup # <<>>
    /\ \E f \in Names :
          /\ disk[<<args.backup[1], f>>] = <<TrimmedFile>>
          /\ disk[<<args.inp, f>>] \notin {<<>>, <<TrimmedFile>>}

\* The enumerated file list of the run
Regions == GetRegions(disk, args.inp)

\* C16, the partition alone: file i goes to work list i mod N, the lists are
\* disjoint and cover the file list, no file is processed twice and no path
\* is accessed by two work lists.
C16_Partition ==
    (args.parallel # <<>> /\ orch \in {"running", "joined", "failed"}) =>
        LET n == args.parallel[1]
        IN  /\ Len(work) = n
            /\ \A i \in 0..(Len(Regions) - 1) :
                  \E k \in 1..Len(work[(i % n) + 1]) :
                      /\ work[(i % n) + 1][k] = Regions[i + 1]
                      /\ k = (i \div n) + 1
            /\ \A w \in 1..n : \A k \in 1..Len(work[w]) : work[w][k] = Regions[(k - 1) * n + w]
            /\ \A f \in Names : started[f] <= 1
            /\ \A t, u \in touched : t.path = u.path => t.w = u.w

\* C16: the partition, and at the end of the batch every file of the list
\* has been processed exactly once.
C16_RoundRobinPartition ==
    /\ C16_Partition
    /\ (args.parallel # <<>> /\ BatchOver) =>
          \A i \in 1..Len(Regions) : started[Regions[i]] = 1

---------------------------------------------------------------------------
(* C17 *)

\* A step of reset_chunk: the container stays loaded, nothing is serialized,
\* and a record leaves the list or the error state changes (a step of
\* conditional_reset keeps every record and raises nothing).
ResetStep ==
    /\ pc = "loaded" /\ pc' = "loaded"
    /\ output' = output
    /\ raised' # raised \/ Len(entity_data') # Len(entity_data)

\* The record list without the record of an index
Without(cd, index) == SelectSeq(cd, LAMBDA e : e.index # index)

\* C17: reset_chunk(index) on a populated index completes without error and
\* removes exactly that record from the in-memory list; the serialization
\* that follows is then the one of the remaining records.
C17_ResetChunkRemoves ==
    [][ResetStep =>
          /\ ~raised'
          /\ \E e \in {entity_data[i] : i \in 1..Len(entity_data)} :
                entity_data' = Without(entity_data, e.index)]_vars

---------------------------------------------------------------------------
(* C18, C19: the layout compaction produces *)

\* The records that hold a payload, of whichever container is loaded
Held == SelectSeq(chunk_data \o entity_data, LAMBDA e : e.chunk # <<>>)

\* Table positions (index + 1) of the records that hold a payload
HeldAt == {Held[k].index + 1 : k \in 1..Len(Held)}

HeldChunk(i) == (CHOOSE e \in {Held[k] : k \in 1..Len(Held)} : e.index + 1 = i).chunk

\* Order of two slots before compaction: by the offset the input gave them,
\* then by index
Precedes(i, j) ==
    LET oi == LocFromBytes(input.loc[i]).offset
        oj == LocFromBytes(input.loc[j]).offset
    IN  oi < oj \/ (oi = oj /\ i < j)

\* The slots that hold a payload, in that order
HeldOrder ==
    [r \in 1..Cardinality(HeldAt) |->
        CHOOSE i \in HeldAt : Cardinality({j \in HeldAt : Precedes(j, i)}) = r - 1]

\* C18: in the serialized container the non-empty slots, in the order of
\* their offsets before compaction (ties by index), have consecutive sector
\* ranges from sector 2, their payloads are the payload region in that
\* order, and the length is the two tables plus 4096 bytes per sector.
C18_ContiguousReflow ==
    (pc = "loaded" /\ output # <<>>) =>
        LET out == output[1]
            n == Len(input.loc)
            loc(r) == LocFromBytes(out.loc[HeldOrder[r]])
            m == Len(HeldOrder)
        IN  /\ Len(out.loc) = n /\ Len(out.ts) = n
            /\ \A r \in 1..m :
                  /\ loc(r).size >= 1
                  /\ loc(r).offset = IF r = 1 THEN FirstSector
                                     ELSE loc(r - 1).offset + loc(r - 1).size
                  /\ Slice(out, loc(r)) = HeldChunk(HeldOrder[r])
                  /\ Len(Slice(out, loc(r))) = loc(r).size
            /\ Len(out.data) = IF m = 0 THEN 0 ELSE loc(m).offset + loc(m).size - FirstSector
            /\ FileLen(out) = 8 * n + CHUNK_SIZE_MULTIPLIER * Len(out.data)

\* reached (region container): two payloads stored in the input in the
\* reverse of index order with a gap, serialized after load
C18_RegionWitness ==
    /\ pc = "loaded" /\ output # <<>> /\ chunk_data # <<>>
    /\ HeldAt = {1, 2}
    /\ HeldOrder = <<2, 1>>
    /\ LocFromBytes(input.loc[1]).offset > LocFromBytes(input.loc[2]).offset + 1
    /\ LocFromBytes(output[1].loc[1]).offset = 3

\* C19: in the serialized tables a slot has no payload exactly when its
\* location is offset 0, size 0; a slot without payload has timestamp 0,
\* whatever its entries were at load; a slot with a payload has offset >= 2.
C19_UnusedSlots ==
    (pc = "loaded" /\ output # <<>>) =>
        LET out == output[1]
            n == Len(input.loc)
        IN  /\ Len(out.loc) = n /\ Len(out.ts) = n
            /\ \A i \in 1..n :
                  LET l == LocFromBytes(out.loc[i])
                  IN  /\ i \notin HeldAt <=> (l.offset = 0 /\ l.size = 0)
                      /\ i \notin HeldAt => TsFromBytes(out.ts[i]) = 0
                      /\ i \in HeldAt => l.offset >= FirstSector

\* reached (region container): a slot unused at load with a stale offset and
\* a timestamp, next to a slot cleared by trim and a slot that is kept
C19_RegionWitness ==
    /\ pc = "loaded" /\ output # <<>> /\ chunk_data # <<>>
    /\ \E i \in 1..NumSlots :
          /\ LocFromBytes(input.loc[i]).size = 0
          /\ LocFromBytes(input.loc[i]).offset # 0
          /\ TsFromBytes(input.ts[i]) # 0
    /\ HeldAt # {}

---------------------------------------------------------------------------
(* C20 *)

\* The slot's entry of the input is one the construction must refuse: it is
\* used and its offset is below 2, or its slice of the file is shorter than
\* size * 4096 bytes, or the compression scheme byte of its header is not 2
Malformed(f, i) ==
    LET loc == LocFromBytes(f.loc[i])
        sl == Slice(f, loc)
    IN  /\ loc.size > 0
        /\ \/ loc.offset < FirstSector
           \/ ByteLen(sl) < loc.size * CHUNK_SIZE_MULTIPLIER
           \/ Compression(sl[1]) # 2

\* C20: a container is built from no file that has a malformed slot, and a
\* failed construction leaves no container.
C20_ConstructionFails ==
    /\ pc = "loaded" => \A i \in 1..Len(input.loc) : ~Malformed(input, i)
    /\ pc = "failed" => chunk_data = <<>> /\ output = <<>>


---------------------------------------------------------------------------
(* C21 *)

\* 0-based positions where the pattern of the scanned field starts
Occurrences ==
    LET p == PropSequence(scan.name, scan.strategy)
    IN  {i \in 0..(Len(scan.data) - Len(p)) : SubSeq(scan.data, i + 1, i + Len(p)) = p}

FirstOccurrence == CHOOSE i \in Occurrences : \A j \in Occurrences : i <= j

\* The bytes of the stream after the pattern that starts at position i, at
\* most the strategy's payload width of them
Following(i) ==
    LET lo == i + Len(PropSequence(scan.name, scan.strategy))
    IN  [k \in 1..Min(scan.strategy.payload_size, Len(scan.data) - lo) |-> scan.data[lo + k]]

\* The big-endian encoding of a returned value in the strategy's width
BigEndian(v, strategy) ==
    CASE strategy.unpack = ">c" -> v
      [] strategy.unpack = ">i" ->
           <<(v \div 16777216) % 256, (v \div 65536) % 256, (v \div 256) % 256, v % 256>>
      [] strategy.unpack = ">Q" -> [k \in 1..(8 - Len(v)) |-> 0] \o v
      [] strategy.unpack = ">f" ->
           <<v.sign * 128 + v.exponent \div 2,
             (v.exponent % 2) * 128 + v.fraction \div 65536,
             (v.fraction \div 256) % 256, v.fraction % 256>>
      [] strategy.unpack = ">d" ->
           <<v.sign * 128 + v.exponent \div 16,
             (v.exponent % 16) * 16 + v.fraction[1]>> \o Tail(v.fraction)

\* C21: once the scan has run, it failed with "not found" exactly when the
\* pattern type_id || u16(name_len) || name occurs nowhere in the stream;
\* when the first occurrence is followed by the payload width of bytes it
\* returned a value, and a returned value is the big-endian reading of
\* exactly those bytes.
C21_FastFieldScan ==
    scan.result # <<>> =>
        LET r == scan.result[1] IN
        /\ r.status = "not found" <=> Occurrences = {}
        /\ Occurrences # {} =>
             LET b == Following(FirstOccurrence) IN
             /\ Len(b) = scan.strategy.payload_size => r.status = "value"
             /\ r.status = "value" =>
                  /\ Len(b) = scan.strategy.payload_size
                  /\ BigEndian(r.value[1], scan.strategy) = b

\* The pattern occurs twice with different bytes after it, and the scan
\* returned a value
C21_Witness ==
    /\ scan.result # <<>>
    /\ scan.result[1].status = "value"
    /\ \E i, j \in Occurrences :
         /\ i < j
         /\ Len(Following(j)) = scan.strategy.payload_size
         /\ Following(i) # Following(j)

\* The first occurrence is cut short by the end of the stream and the scan
\* failed, but not with "not found"
C21_TruncatedWitness ==
    /\ scan.result # <<>>
    /\ Occurrences # {}
    /\ Len(Following(FirstOccurrence)) < scan.strategy.payload_size
    /\ scan.result[1].status = "unpack error"

---------------------------------------------------------------------------
(* C4, for region and entities containers *)

\* A step that serializes the loaded container and returns new bytes
SerializeStep ==
    /\ pc = "loaded" /\ pc' = "loaded"
    /\ output' # <<>>
    /\ output' # output

\* What a record that holds a payload is known by: its index, its payload
\* and its timestamp
Survivor(e) == [index |-> e.index, chunk |-> e.chunk, timestamp |-> e.timestamp]

\* out is a round trip of the records held: the tables keep the size of the
\* input's, the entry of every record held has size > 0 and points at the
\* payload bytes loaded for it, with the timestamp of the input, and
\* loading out gives back the records held and no other.
RoundTrip(out, held, again) ==
    /\ Len(out.loc) = Len(input.loc) /\ Len(out.ts) = Len(input.ts)
    /\ \A k \in 1..Len(held) :
          LET i == held[k].index + 1
          IN  /\ i \in Used(out)
              /\ Payload(out, out.loc[i]) = Payload(input, input.loc[i])
              /\ Payload(out, out.loc[i]) = held[k].chunk
              /\ out.ts[i] = input.ts[i]
    /\ again.ok
    /\ {Survivor(again.cd[k]) : k \in {j \in 1..Len(again.cd) : again.cd[j].chunk # <<>>}}
          = {Survivor(held[k]) : k \in 1..Len(held)}

\* C4: whenever a container is serialized, after any calls that cleared
\* payloads, every record whose payload was not cleared has an output entry
\* with size > 0 at its index pointing at exactly its payload bytes, and
\* the timestamp it had at load; loading the output yields the same payload
\* and timestamp at every surviving index and nothing at any other.
C4_SurvivorsRoundTrip ==
    [][SerializeStep =>
          RoundTrip(output'[1], Held',
                    IF chunk_data' # <<>> THEN RegionInit(output'[1])
                                          ELSE EntitiesInit(output'[1]))]_vars

\* The same for the entities containers whose record list holds a record
\* of index 0, the case in which the tables to_bytes writes are whole
C4_EntitiesFirstSlotHeld ==
    [][(SerializeStep /\ \E k \in 1..Len(entity_data) : entity_data[k].index = 0) =>
          RoundTrip(output'[1], Held', EntitiesInit(output'[1]))]_vars

\* reached: an entities container with a single record, at index 1, was
\* serialized and the entry of index 1 in the output has size 0
C4_EntitiesWitness ==
    /\ pc = "loaded" /\ output # <<>>
    /\ Len(entity_data) = 1 /\ entity_data[1].index = 1 /\ entity_data[1].chunk # <<>>
    /\ Len(output[1].loc) >= 2
    /\ 2 \notin Used(output[1])
====
